---- MODULE Spec2Model ----
(***************************************************************************)
(* Model of leaders-commit-ranking (src/main.go).                          *)
(*                                                                         *)
(* The LLM-scored ranking program (main.go:1-611) is modelled as a         *)
(* sequential state machine: one action per loop iteration / collaborator  *)
(* call.  Every collaborator (GitHub repository lister, commit lister,     *)
(* commit detail fetcher, Gemini evaluator) answers nondeterministically   *)
(* at each call.                                                           *)
(*                                                                         *)
(* Texts are sequences of tokens: a repository name is a sequence of       *)
(* one-character strings, an error text is the concatenation the code      *)
(* builds with fmt.Errorf, and strings.Contains is a real subsequence      *)
(* search on it.  Scores of type float64 are kept exactly, in thousandths  *)
(* (OverallScore = 1000 * the Go value, computed in exact arithmetic).     *)
(***************************************************************************)
EXTENDS Integers, Sequences, FiniteSets, TLC

VARIABLES
    variant,                    \* which program runs: "llm" (main.go:1-611) or "chart" (613-958)
    pc,                         \* control point of main / of the function under analysis
    allRepos,                   \* GetOrganizationRepos: allRepos (names only)
    reposPage,                  \* number of ListByOrg pages fetched so far
    repoIdx,                    \* main: index of the range loop over repos (1-based)
    commitCount,                \* countAllCommits: commitCount
    page,                       \* number of ListCommits pages fetched in the current pagination
    totalCommits,               \* GetRepositoryCommitAnalysisData: totalCommits
    allCommitSHAs,              \* GetRepositoryCommitAnalysisData: allCommitSHAs
    indices,                    \* GetRepositoryCommitAnalysisData: indices (0-based array)
    shuffleI,                   \* loop variable i of the shuffle loop
    finalSelectedSHAs,          \* GetRepositoryCommitAnalysisData: finalSelectedSHAs
    shaIdx,                     \* position of the range loop over finalSelectedSHAs (1-based)
    commit,                     \* the commit returned by GetCommit, being packaged
    analyzedCommits,            \* GetRepositoryCommitAnalysisData: analyzedCommits
    numRandomCommitsToAnalyze,  \* parameter of GetRepositoryCommitAnalysisData
    diffLinesLimit,             \* parameter of GetRepositoryCommitAnalysisData
    repoScores,                 \* main: repoScores
    repoCommits,                \* main (chart variant): repoCommits
    maxCommitsValue,            \* main (chart variant): maxCommitsValue
    listed,                     \* history: items returned by ListByOrg and ListCommits
    detailLog,                  \* history: GetCommit calls of the current repository
    evalCalls,                  \* history: GenerateContent calls for the current repository
    evalEnd,                    \* history: how the evaluation of the current repository ended
    evalMissing,                \* history: the score fields the evaluator's JSON object lacked
    shaEnd,                     \* history: how the SHA listing of the current repository ended
    countEnd                    \* history: how counting ended for the current repository

vars == <<variant, pc, allRepos, reposPage, repoIdx, commitCount, page, totalCommits,
          allCommitSHAs, indices, shuffleI, finalSelectedSHAs, shaIdx, commit,
          analyzedCommits, numRandomCommitsToAnalyze, diffLinesLimit,
          repoScores, repoCommits, maxCommitsValue, listed, detailLog,
          evalCalls, evalEnd, evalMissing, shaEnd, countEnd>>

----------------------------------------------------------------------------
(* Bounds of the exploration *)

MaxPages == 2        \* pages of one pagination
MaxItems == 6        \* items (repositories and commits) the listers return in a run

MaxPopulation == 4   \* commit identifiers handed to the sampler
MaxSampleTarget == 5 \* sample targets handed to the sampler
MaxSelected == 5     \* selected identifiers handed to the detail loop
MaxSampled == 2      \* packaged commits handed to the evaluation
MaxFiles == 3        \* files of a commit handed to the packaging
MaxLimit == 4        \* line limits handed to the packaging

(* Program constants *)

ConstNumRandomCommitsToAnalyze == 5
ConstDiffLinesLimit == 100
MaxCommitCountForNorm == 1000
ShaEarlyStopThreshold == 500
ShaEarlyStopMaxSamples == 10
StatusConflict == 409

----------------------------------------------------------------------------
(* Generic helpers *)

Min(a, b) == IF a < b THEN a ELSE b

SeqsUpTo(S, n) == UNION {[1..k -> S] : k \in 0..n}

Take(s, n) == SubSeq(s, 1, Min(n, Len(s)))

RECURSIVE Flatten(_)
Flatten(ss) == IF ss = <<>> THEN <<>> ELSE Head(ss) \o Flatten(Tail(ss))

(* strings.Contains on token sequences *)
Contains(text, sub) ==
    \E k \in 0..(Len(text) - Len(sub)) : SubSeq(text, k + 1, k + Len(sub)) = sub


----------------------------------------------------------------------------
(* Texts *)

Organization == <<"o", "r", "g">>      \* cfg.Organization, fixed for the analysis

Digits409 == <<"4", "0", "9">>
Digits500 == <<"5", "0", "0">>

(* Names the repository lister may return; <<>> is the empty name *)
RepoNames == { <<>>, <<"a">>, <<"b">>, <<"r", "4", "0", "9">> }

CommitsURL(owner, repoName) ==
    <<"https://api.github.com/repos/">> \o owner \o <<"/">> \o repoName
        \o <<"/commits?per_page=100">>

(* github.ErrorResponse.Error(): "METHOD URL: STATUS MESSAGE ERRORS" *)
ApiErrorText(owner, repoName, digits, message) ==
    <<"GET ">> \o CommitsURL(owner, repoName) \o <<": ">> \o digits
        \o <<" ">> \o message \o <<" []">>

(* url.Error.Error() of a transport failure: no response was received *)
NetErrorText(owner, repoName, cause) ==
    <<"Get \"">> \o CommitsURL(owner, repoName) \o <<"\": ">> \o cause

NoResponse == 0      \* resp == nil

(* One answer of ListCommits: failed is err != nil, status is               *)
(* resp.StatusCode (NoResponse when resp == nil), text is err.Error(),      *)
(* items[k] tells whether the k-th commit of the page carries a SHA         *)
(* (c.SHA != nil), next is resp.NextPage                                    *)
ErrorAnswer(status, text) ==
    [failed |-> TRUE, status |-> status, text |-> text, items |-> <<>>, next |-> 0]

PageAnswer(items, next) ==
    [failed |-> FALSE, status |-> 200, text |-> <<>>, items |-> items,
     next |-> next]

ListCommitsErrors(owner, repoName) ==
    { ErrorAnswer(StatusConflict, ApiErrorText(owner, repoName, Digits409, <<>>)),
      ErrorAnswer(StatusConflict,
          ApiErrorText(owner, repoName, Digits409, <<"Git Repository is empty.">>)),
      ErrorAnswer(500, ApiErrorText(owner, repoName, Digits500, <<"Server Error">>)),
      ErrorAnswer(NoResponse,
          NetErrorText(owner, repoName, <<"dial tcp: i/o timeout">>)),
      ErrorAnswer(NoResponse,
          NetErrorText(owner, repoName,
              <<"read tcp 10.0.0.1:">> \o Digits409 \o <<"1", "2">>
                  \o <<": connection reset by peer">>)) }

NextPages(p) == IF p < MaxPages THEN {0, p + 1} ELSE {0}

(* the commits of a page: at most the last one comes without a SHA *)
PageItems(maxLen) ==
    { items \in SeqsUpTo(BOOLEAN, maxLen) : \A k \in 1..(Len(items) - 1) : items[k] }

ListCommitsPages(p, maxLen) ==
    { PageAnswer(items, next) : items \in PageItems(maxLen), next \in NextPages(p) }

(* the answers of ListCommits for page p when at most maxLen items remain *)
ListCommitsAnswers(owner, repoName, p, maxLen) ==
    ListCommitsErrors(owner, repoName) \cup ListCommitsPages(p, maxLen)

(* what the commit listing reported, whatever the code makes of it *)
ConflictReported(a) == a.failed /\ a.status = StatusConflict

----------------------------------------------------------------------------
(* RepoScore values (main.go:36-45); OverallScore in thousandths.          *)
(* SampledCommits (main.go:44) is read by no live code: a RepoScore of the *)
(* model keeps its length, AnalyzedCommitsCount, only                      *)

ErroredScore(name) ==
    [Name |-> name, CommitCount |-> -1, TechnicalScore |-> 0, MessageScore |-> 0,
     OverallScore |-> 0, AnalyzedCommitsCount |-> 0]

(* a zero-commit repository scored like one without samples *)
ZeroCommitFloorScore(name) ==
    [Name |-> name, CommitCount |-> 0, TechnicalScore |-> 1, MessageScore |-> 0,
     OverallScore |-> 400, AnalyzedCommitsCount |-> 0]

ZeroCommitScore(name) ==
    [Name |-> name, CommitCount |-> 0, TechnicalScore |-> 0, MessageScore |-> 0,
     OverallScore |-> 0, AnalyzedCommitsCount |-> 0]

EvalFailedScore(name, total, sampled) ==
    [Name |-> name, CommitCount |-> total, TechnicalScore |-> 0, MessageScore |-> 0,
     OverallScore |-> 0, AnalyzedCommitsCount |-> Len(sampled)]

(* main.go:548-558, in thousandths: weights 0.2, 0.4, 0.4 are 200, 400, 400 *)
CommitCountWeight == 200
TechnicalScoreWeight == 400
MessageScoreWeight == 400

(* the commit count taken without the cap *)
UncappedCommitCount(total) == total

NormalizedCommitCount(total) ==
    IF total > MaxCommitCountForNorm THEN MaxCommitCountForNorm ELSE total

(* commitScore = normalized / 1000 * 10, kept in thousandths *)
CommitScore(total) == (NormalizedCommitCount(total) * 1000 * 10) \div MaxCommitCountForNorm

OverallScoreOf(total, tech, msg) ==
    (CommitScore(total) * CommitCountWeight) \div 1000
        + tech * TechnicalScoreWeight + msg * MessageScoreWeight

ScoredRepo(name, total, eval, sampled) ==
    [Name |-> name, CommitCount |-> total,
     TechnicalScore |-> eval.TechnicalSophistication,
     MessageScore |-> eval.MessageAppropriateness,
     OverallScore |-> OverallScoreOf(total, eval.TechnicalSophistication,
                                     eval.MessageAppropriateness),
     AnalyzedCommitsCount |-> Len(sampled)]


----------------------------------------------------------------------------
(* Diff packaging (main.go:411-448).  A patch is the sequence of lines     *)
(* strings.Split(patch, "\n") yields, so the empty patch "" is <<"">>.     *)
(* The strings.Builder is a sequence of tokens; "\n" is a token of its own. *)

NL == "\n"
Separator == "---"
TruncationText == "... (diff truncated due to line limit)"
TruncationMarker == <<NL, TruncationText, NL>>
EmptyPatch == <<"">>

(* the patch text itself: its lines joined by "\n" *)
RECURSIVE JoinLines(_)
JoinLines(lines) ==
    IF Len(lines) <= 1 THEN lines
    ELSE <<Head(lines), NL>> \o JoinLines(Tail(lines))

TrimSuffix(s, suffix) ==
    IF Len(s) >= Len(suffix) /\ SubSeq(s, Len(s) - Len(suffix) + 1, Len(s)) = suffix
    THEN SubSeq(s, 1, Len(s) - Len(suffix))
    ELSE s

(* the loop over patchLines stopping one line late *)
RECURSIVE WritePatchLinesLate(_, _, _, _)
WritePatchLinesLate(patchLines, out, currentLines, limit) ==
    IF patchLines = <<>>
    THEN [out |-> out, currentLines |-> currentLines, truncated |-> FALSE]
    ELSE IF currentLines > limit
    THEN [out |-> out \o TruncationMarker, currentLines |-> currentLines,
          truncated |-> TRUE]
    ELSE WritePatchLinesLate(Tail(patchLines), out \o <<Head(patchLines), NL>>,
                             currentLines + 1, limit)

(* main.go:423-431: the loop over patchLines of one file *)
RECURSIVE WritePatchLines(_, _, _, _)
WritePatchLines(patchLines, out, currentLines, limit) ==
    IF patchLines = <<>>
    THEN [out |-> out, currentLines |-> currentLines, truncated |-> FALSE]
    ELSE IF currentLines >= limit
    THEN [out |-> out \o TruncationMarker, currentLines |-> currentLines,
          truncated |-> TRUE]
    ELSE WritePatchLines(Tail(patchLines), out \o <<Head(patchLines), NL>>,
                         currentLines + 1, limit)

(* the loop over commit.Files going on with the next file after the marker *)
RECURSIVE WriteFilesNoGoto(_, _, _, _)
WriteFilesNoGoto(files, out, currentLines, limit) ==
    IF files = <<>> THEN out
    ELSE LET patch == Head(files) IN
         IF patch = EmptyPatch
         THEN WriteFilesNoGoto(Tail(files), out, currentLines, limit)
         ELSE IF limit > 0
         THEN LET r == WritePatchLines(patch, out, currentLines, limit) IN
              WriteFilesNoGoto(Tail(files),
                               IF r.currentLines < limit
                               THEN r.out \o <<Separator, NL>> ELSE r.out,
                               r.currentLines, limit)
         ELSE WriteFilesNoGoto(Tail(files),
                               out \o JoinLines(patch) \o <<NL, Separator, NL>>,
                               currentLines, limit)

(* main.go:419-442: the loop over commit.Files *)
RECURSIVE WriteFiles(_, _, _, _)
WriteFiles(files, out, currentLines, limit) ==
    IF files = <<>> THEN out
    ELSE LET patch == Head(files) IN
         IF patch = EmptyPatch
         THEN WriteFiles(Tail(files), out, currentLines, limit)
         ELSE IF limit > 0
         THEN LET r == WritePatchLines(patch, out, currentLines, limit) IN
              IF r.truncated THEN r.out          \* goto EndDiffProcessing
              ELSE WriteFiles(Tail(files),
                              IF r.currentLines < limit
                              THEN r.out \o <<Separator, NL>> ELSE r.out,
                              r.currentLines, limit)
         ELSE WriteFiles(Tail(files),
                         out \o JoinLines(patch) \o <<NL, Separator, NL>>,
                         currentLines, limit)

(* main.go:416-447: CommitInfo.Diff *)
DiffSnippet(files, limit) ==
    TrimSuffix(WriteFiles(files, <<>>, 0, limit), <<NL, Separator, NL>>)

(* a fetched commit: message is <<>> when commit.Commit or its Message is  *)
(* nil and <<text>> otherwise; files are the patches of commit.Files (nil  *)
(* Files and no files are both <<>>)                                       *)
CommitInfoOf(sha, c, limit) ==
    [SHA |-> sha,
     Message |-> IF c.message = <<>> THEN "" ELSE c.message[1],
     Diff |-> DiffSnippet(c.files, limit)]

NoCommit == [message |-> <<>>, files |-> <<>>]

(* The commit GetCommit returns in the pipeline *)
CommitDetails ==
    { [message |-> <<"fix">>, files |-> << <<"+a", "-b">>, EmptyPatch, <<"+c">> >>] }

----------------------------------------------------------------------------
(* The evaluator (main.go:126-229) *)

(* The texts the evaluator may answer, by the JSON they carry.             *)
(* form: "object" (a JSON object), "malformed" (an object text starting    *)
(* with a score key that json.Unmarshal rejects) or "prose" (no JSON).     *)
(* first: the key that comes first in the object ("other": another key, or *)
(* none); tech, msg: <<v>> when the field is present with value v, <<>>    *)
(* when it is absent                                                       *)
JsonObject(first, tech, msg) ==
    [form |-> "object", first |-> first, tech |-> tech, msg |-> msg]

JsonTexts ==
    { JsonObject("tech", <<10>>, <<10>>),
      JsonObject("tech", <<0>>, <<0>>),
      JsonObject("tech", <<3>>, <<7>>),
      JsonObject("msg", <<7>>, <<3>>),
      JsonObject("tech", <<3>>, <<>>),
      JsonObject("other", <<12>>, <<-1>>),
      [form |-> "malformed", first |-> "tech", tech |-> <<>>, msg |-> <<>>],
      [form |-> "prose", first |-> "other", tech |-> <<>>, msg |-> <<>>] }

(* The answers of one GenerateContent call *)
GeminiResponses ==
    [kind : {"error", "noCandidates", "nonText"}, fenced : {FALSE},
     json : {JsonObject("other", <<>>, <<>>)}]
    \cup [kind : {"text"}, fenced : BOOLEAN, json : JsonTexts]

GeminiScoreOf(tech, msg) ==
    [TechnicalSophistication |-> tech, MessageAppropriateness |-> msg]

EvalError == [err |-> TRUE, score |-> GeminiScoreOf(0, 0)]
EvalOk(score) == [err |-> FALSE, score |-> score]

(* main.go:202-220: the JSON text extracted from the response: <<json>>,   *)
(* or <<>> when neither regular expression matches                         *)
ExtractJSON(resp) ==
    IF resp.fenced THEN <<resp.json>>
    ELSE IF resp.json.form # "prose" /\ resp.json.first \in {"tech", "msg"}
    THEN <<resp.json>>
    ELSE <<>>

(* main.go:222-228: json.Unmarshal into GeminiScore; absent fields keep 0 *)
Unmarshal(json) ==
    IF json.form # "object" THEN EvalError
    ELSE EvalOk(GeminiScoreOf(IF json.tech = <<>> THEN 0 ELSE json.tech[1],
                              IF json.msg = <<>> THEN 0 ELSE json.msg[1]))

(* the answer without samples being the zero score *)
ZeroShortCircuitScore(total) == GeminiScoreOf(0, 0)

(* main.go:126-135: the answers given without calling the evaluator *)
(* the evaluator asked for every repository that has commits *)
NeedsEvaluatorForCommits(total, sampled) == total # 0

NeedsEvaluator(total, sampled) == total # 0 /\ Len(sampled) # 0

ShortCircuitScore(total) ==
    IF total = 0 THEN GeminiScoreOf(0, 0) ELSE GeminiScoreOf(1, 0)

(* the score fields missing from the JSON object extracted from the       *)
(* answer; none when no JSON object was extracted                          *)
MissingFields(resp) ==
    IF resp.kind # "text" \/ ExtractJSON(resp) = <<>> \/ resp.json.form # "object"
    THEN {}
    ELSE (IF resp.json.tech = <<>> THEN {"technical_sophistication"} ELSE {})
         \cup (IF resp.json.msg = <<>> THEN {"message_appropriateness"} ELSE {})

(* main.go:184-228: from the evaluator's answer to (score, error) *)
ParseResponse(resp) ==
    IF resp.kind # "text" THEN EvalError
    ELSE LET extracted == ExtractJSON(resp) IN
         IF extracted = <<>> THEN EvalError ELSE Unmarshal(extracted[1])


----------------------------------------------------------------------------
(* Counting (main.go:298-341) *)

(* the conflict test looking for another status *)
IsNotFound(a) == a.status # NoResponse /\ a.status = 404

(* main.go:306, 270: resp != nil && resp.StatusCode == 409 *)
IsEmptyRepoConflict(a) == a.status # NoResponse /\ a.status = StatusConflict

(* countAllCommits, main.go:309: the text of the error it returns *)
CountErrorText(owner, repoName, a) ==
    <<"failed to list commits for ">> \o owner \o <<"/">> \o repoName
        \o <<" during full count: ">> \o a.text

(* GetRepositoryCommitCount, main.go:273: the text of the error it returns *)
ProbeErrorText(owner, repoName, a) ==
    <<"failed to list commits for ">> \o owner \o <<"/">> \o repoName
        \o <<": ">> \o a.text

(* the loop left before the items of the last page are added *)
CountBreaksBeforeAdd(count, a, owner, repoName) ==
    IF a.failed
    THEN IF IsEmptyRepoConflict(a)
         THEN [done |-> TRUE, count |-> 0, err |-> <<>>]
         ELSE [done |-> TRUE, count |-> 0,
               err |-> <<CountErrorText(owner, repoName, a)>>]
    ELSE [done |-> a.next = 0,
          count |-> IF a.next = 0 THEN count ELSE count + Len(a.items),
          err |-> <<>>]

(* one iteration of countAllCommits (main.go:303-317) on answer a, with    *)
(* commitCount = count before it: done tells whether the function returns, *)
(* and then (count, err) is what it returns; err is <<>> for nil and       *)
(* <<text>> for an error                                                   *)
CountAllCommitsStep(count, a, owner, repoName) ==
    IF a.failed
    THEN IF IsEmptyRepoConflict(a)
         THEN [done |-> TRUE, count |-> 0, err |-> <<>>]
         ELSE [done |-> TRUE, count |-> 0,
               err |-> <<CountErrorText(owner, repoName, a)>>]
    ELSE [done |-> a.next = 0, count |-> count + Len(a.items), err |-> <<>>]

(* main.go:331: the text the first test compares with *)
EmptyRepoErrorText(owner, repoName) ==
    <<"failed to list commits for ">> \o owner \o <<"/">> \o repoName
        \o <<" during full count: ">> \o <<"GET ">> \o CommitsURL(owner, repoName)
        \o <<": ">> \o Digits409 \o <<" ">> \o <<" []">>

(* main.go:331-334: the errors of countAllCommits that are taken as 0 commits *)
CountErrorTolerated(text, owner, repoName, total) ==
    \/ text = EmptyRepoErrorText(owner, repoName) /\ total = 0
    \/ total = 0 /\ Contains(text, Digits409)

(* main.go:328-341: what GetRepositoryCommitAnalysisData makes of the      *)
(* (count, err) countAllCommits returned: failed when it returns an error, *)
(* else total is totalCommits                                              *)
AnalysisCount(ret, owner, repoName) ==
    IF ret.err # <<>> /\ ~CountErrorTolerated(ret.err[1], owner, repoName, ret.count)
    THEN [failed |-> TRUE, total |-> 0]
    ELSE [failed |-> FALSE, total |-> ret.count]

(* main.go:356-360: the SHAs of a page appended; the k-th SHA gathered in  *)
(* a pass is named k                                                       *)
RECURSIVE AppendSHAs(_, _)
AppendSHAs(shas, items) ==
    IF items = <<>> THEN shas
    ELSE AppendSHAs(IF Head(items) THEN Append(shas, Len(shas) + 1) ELSE shas,
                    Tail(items))

(* main.go:380-383 *)
NumToSelect(shas, k) == IF Len(shas) < k THEN Len(shas) ELSE k

(* the exchange writing one side only *)
SwapOverwrite(f, a, b) == [f EXCEPT ![a] = f[b]]

(* main.go:395 *)
Swap(f, a, b) == [f EXCEPT ![a] = f[b], ![b] = f[a]]

(* main.go:398-400 *)
SelectedSHAs(shas, idx, n) == [p \in 1..n |-> shas[idx[p - 1] + 1]]

(* a comparison that also holds between equal scores *)
GreaterOrEqual(a, b) == a.OverallScore >= b.OverallScore

(* main.go:574-576: sort.SliceStable by OverallScore, descending *)
Less(a, b) == a.OverallScore > b.OverallScore

RECURSIVE InsertStable(_, _)
InsertStable(sorted, x) ==
    IF sorted = <<>> THEN <<x>>
    ELSE IF Less(x, Head(sorted)) THEN <<x>> \o sorted
    ELSE <<Head(sorted)>> \o InsertStable(Tail(sorted), x)

RECURSIVE SortSliceStable(_)
SortSliceStable(s) ==
    IF s = <<>> THEN <<>>
    ELSE InsertStable(SortSliceStable(SubSeq(s, 1, Len(s) - 1)), s[Len(s)])


----------------------------------------------------------------------------
(* State *)

listerVars == <<allRepos, reposPage>>
paramVars  == <<variant, numRandomCommitsToAnalyze, diffLinesLimit>>
countVars  == <<commitCount, page, totalCommits>>
sampleVars == <<allCommitSHAs, indices, shuffleI, finalSelectedSHAs>>
detailVars == <<shaIdx, commit, analyzedCommits>>
chartVars  == <<repoCommits, maxCommitsValue>>
logVars    == <<listed, detailLog, evalCalls, evalEnd, evalMissing, shaEnd, countEnd>>

(* the state main starts in, whichever program runs *)
InitRun ==
    /\ pc = "listRepos"
    /\ allRepos = <<>>
    /\ reposPage = 1
    /\ repoIdx = 1
    /\ commitCount = 0
    /\ page = 1
    /\ totalCommits = 0
    /\ allCommitSHAs = <<>>
    /\ indices = <<>>
    /\ shuffleI = 0
    /\ finalSelectedSHAs = <<>>
    /\ shaIdx = 1
    /\ commit = NoCommit
    /\ analyzedCommits = <<>>
    /\ numRandomCommitsToAnalyze = ConstNumRandomCommitsToAnalyze
    /\ diffLinesLimit = ConstDiffLinesLimit
    /\ repoScores = <<>>
    /\ repoCommits = <<>>
    /\ maxCommitsValue = 0
    /\ listed = 0
    /\ detailLog = <<>>
    /\ evalCalls = 0
    /\ evalEnd = "none"
    /\ evalMissing = {}
    /\ shaEnd = "none"
    /\ countEnd = "none"

Init == variant \in {"llm", "chart"} /\ InitRun

(* The pages the repository lister may return after `have`: non-empty      *)
(* names are unique within an organization                                 *)
RepoPages(have, maxLen) ==
    { names \in SeqsUpTo(RepoNames, maxLen) :
        LET all == have \o names IN
        \A p, q \in 1..Len(all) : (p # q /\ all[p] = all[q]) => all[p] = <<>> }

(* GetOrganizationRepos, main.go:232-250, and main.go:497-505 *)
ListByOrg ==
    /\ pc = "listRepos"
    /\ \/ /\ allRepos' = <<>>                    \* err != nil: return nil, err
          /\ pc' = "fatal"                       \* log.Fatalf
          /\ reposPage' = 1
          /\ UNCHANGED listed
       \/ \E names \in RepoPages(allRepos, MaxItems - listed),
             next \in NextPages(reposPage) :
            /\ allRepos' = allRepos \o names
            /\ listed' = listed + Len(names)
            /\ IF next = 0
               THEN /\ pc' = IF Len(allRepos') = 0 THEN "exit" ELSE "loop"
                    /\ reposPage' = 1            \* opt is gone on return
               ELSE /\ pc' = pc
                    /\ reposPage' = next
    /\ UNCHANGED <<repoIdx, countVars, sampleVars, detailVars, paramVars,
                   repoScores, chartVars, detailLog, evalCalls, evalEnd, evalMissing, shaEnd, countEnd>>

(* main.go:511, 810: the range loop is over *)
LoopExit ==
    /\ pc = "loop"
    /\ repoIdx > Len(allRepos)
    /\ pc' = "sort"
    /\ commitCount' = 0                \* the locals of the loop body are gone
    /\ page' = 1
    /\ totalCommits' = 0
    /\ detailLog' = <<>>
    /\ evalCalls' = 0
    /\ evalEnd' = "none"
    /\ evalMissing' = {}
    /\ shaEnd' = "none"
    /\ countEnd' = "none"
    /\ UNCHANGED <<listerVars, repoIdx, sampleVars, detailVars, paramVars,
                   repoScores, chartVars, listed>>

(* main.go:512-516, 811-815 *)
SkipUnnamed ==
    /\ pc = "loop"
    /\ repoIdx <= Len(allRepos)
    /\ allRepos[repoIdx] = <<>>
    /\ repoIdx' = repoIdx + 1
    /\ UNCHANGED <<pc, listerVars, countVars, sampleVars, detailVars, paramVars,
                   repoScores, chartVars, logVars>>

(* main.go:517-519 and 298-302: the call of GetRepositoryCommitAnalysisData *)
BeginRepo ==
    /\ variant = "llm"
    /\ pc = "loop"
    /\ repoIdx <= Len(allRepos)
    /\ allRepos[repoIdx] # <<>>
    /\ pc' = "count"
    /\ commitCount' = 0
    /\ page' = 1
    /\ totalCommits' = 0
    /\ detailLog' = <<>>
    /\ evalCalls' = 0
    /\ evalEnd' = "none"
    /\ evalMissing' = {}
    /\ shaEnd' = "none"
    /\ countEnd' = "none"
    /\ UNCHANGED <<listerVars, repoIdx, sampleVars, detailVars, paramVars,
                   repoScores, chartVars, listed>>

(* GetRepositoryCommitAnalysisData has returned: its locals are gone *)
DropLocals ==
    /\ allCommitSHAs' = <<>>
    /\ indices' = <<>>
    /\ shuffleI' = 0
    /\ finalSelectedSHAs' = <<>>
    /\ shaIdx' = 1
    /\ commit' = NoCommit
    /\ analyzedCommits' = <<>>

(* main leaving the loop after a repository whose counting failed *)
RecordOrBreak(score) ==
    /\ repoScores' = Append(repoScores, score)
    /\ repoIdx' = IF score.CommitCount = -1 THEN Len(allRepos) + 1 ELSE repoIdx + 1
    /\ pc' = "loop"
    /\ DropLocals

(* main.go:522-523, 528-529, 536-545, 560-568: main appends one RepoScore  *)
(* and goes on with the next repository                                    *)
Record(score) ==
    /\ repoScores' = Append(repoScores, score)
    /\ repoIdx' = repoIdx + 1
    /\ pc' = "loop"
    /\ DropLocals

(* how the counting of the current repository ended *)
CountEndOf(a) ==
    IF ConflictReported(a) THEN "conflict" ELSE IF a.failed THEN "failed" ELSE "ok"

(* one iteration of countAllCommits (main.go:303-317), with the return of  *)
(* GetRepositoryCommitAnalysisData (main.go:328-341) and main.go:520-530    *)
CountPage ==
    /\ variant = "llm"
    /\ pc = "count"
    /\ \E a \in ListCommitsAnswers(Organization, allRepos[repoIdx], page,
                                   MaxItems - listed) :
         LET name == allRepos[repoIdx]
             step == CountAllCommitsStep(commitCount, a, Organization, name)
             res  == AnalysisCount(step, Organization, name) IN
         /\ listed' = listed + Len(a.items)
         /\ commitCount' = commitCount + Len(a.items)
         /\ IF ~step.done
            THEN /\ page' = a.next
                 /\ UNCHANGED <<pc, repoIdx, repoScores, totalCommits, countEnd,
                                sampleVars, detailVars>>
            ELSE /\ countEnd' = CountEndOf(a)
                 /\ totalCommits' = res.total
                 /\ IF res.failed
                    THEN Record(ErroredScore(name)) /\ UNCHANGED page
                    ELSE IF res.total = 0
                    THEN Record(ZeroCommitScore(name)) /\ UNCHANGED page
                    ELSE /\ pc' = "listShas"
                         /\ page' = 1
                         /\ UNCHANGED <<repoIdx, repoScores, sampleVars,
                                        detailVars>>
    /\ UNCHANGED <<listerVars, paramVars, chartVars, detailLog, evalCalls, evalEnd, evalMissing, shaEnd>>

(* the SHA listing going on to the sampling with the SHAs gathered before *)
(* the page that failed                                                   *)
ListShaPageKeepsPartial ==
    /\ pc = "listShas"
    /\ \E a \in ListCommitsAnswers(Organization, allRepos[repoIdx], page,
                                   MaxItems - listed) :
         LET shas == AppendSHAs(allCommitSHAs, a.items) IN
         /\ listed' = listed + Len(a.items)
         /\ IF a.failed
            THEN /\ pc' = "sample"
                 /\ shaEnd' = "failed"
                 /\ UNCHANGED <<allCommitSHAs, page>>
            ELSE /\ allCommitSHAs' = shas
                 /\ IF a.next = 0 \/ Len(shas) >= totalCommits
                    THEN pc' = "sample" /\ UNCHANGED page
                    ELSE /\ page' = a.next
                         /\ pc' = IF Len(shas) > ShaEarlyStopThreshold
                                     /\ numRandomCommitsToAnalyze
                                            <= ShaEarlyStopMaxSamples
                                  THEN "sample" ELSE pc
                 /\ shaEnd' = IF pc' = "sample" THEN "listed" ELSE shaEnd
    /\ UNCHANGED <<listerVars, repoIdx, commitCount, totalCommits, indices,
                   shuffleI, finalSelectedSHAs, detailVars, paramVars, chartVars,
                   repoScores, detailLog, evalCalls, evalEnd, evalMissing, countEnd>>

(* one iteration of the SHA listing loop, main.go:348-369 *)
ListShaPage ==
    /\ pc = "listShas"
    /\ \E a \in ListCommitsAnswers(Organization, allRepos[repoIdx], page,
                                   MaxItems - listed) :
         LET shas == AppendSHAs(allCommitSHAs, a.items) IN
         /\ listed' = listed + Len(a.items)
         /\ IF a.failed                  \* listErr != nil: return totalCommits, {}
            THEN /\ pc' = "eval"
                 /\ shaEnd' = "failed"
                 /\ UNCHANGED <<allCommitSHAs, page>>
            ELSE /\ allCommitSHAs' = shas
                 /\ IF a.next = 0 \/ Len(shas) >= totalCommits
                    THEN pc' = "sample" /\ UNCHANGED page
                    ELSE /\ page' = a.next
                         /\ pc' = IF Len(shas) > ShaEarlyStopThreshold
                                     /\ numRandomCommitsToAnalyze
                                            <= ShaEarlyStopMaxSamples
                                  THEN "sample" ELSE pc
                 /\ shaEnd' = IF pc' = "sample" THEN "listed" ELSE shaEnd
    /\ UNCHANGED <<listerVars, repoIdx, commitCount, totalCommits, indices,
                   shuffleI, finalSelectedSHAs, detailVars, paramVars, chartVars,
                   repoScores, detailLog, evalCalls, evalEnd, evalMissing, countEnd>>

(* main.go:371-390 *)
BeginSample ==
    /\ pc = "sample"
    /\ IF Len(allCommitSHAs) = 0
       THEN /\ pc' = "eval"               \* return totalCommits, {}
            /\ UNCHANGED <<indices, shuffleI>>
       ELSE /\ indices' = [p \in 0..(Len(allCommitSHAs) - 1) |-> p]
            /\ shuffleI' = Len(allCommitSHAs) - 1
            /\ pc' = "shuffle"
    /\ UNCHANGED <<listerVars, repoIdx, countVars, allCommitSHAs,
                   finalSelectedSHAs, detailVars, paramVars, chartVars, repoScores, logVars>>

(* the shuffle loop without its i-- *)
ShuffleStepSameIndex ==
    /\ pc = "shuffle"
    /\ shuffleI > 0
    /\ \E j \in 0..shuffleI :
         indices' = Swap(indices, shuffleI, j)
    /\ UNCHANGED <<pc, shuffleI, listerVars, repoIdx, countVars, allCommitSHAs,
                   finalSelectedSHAs, detailVars, paramVars, chartVars, repoScores, logVars>>

(* one iteration of the shuffle loop, main.go:392-396 *)
ShuffleStep ==
    /\ pc = "shuffle"
    /\ shuffleI > 0
    /\ \E j \in 0..shuffleI :              \* rand.Int(rand.Reader, i+1)
         indices' = Swap(indices, shuffleI, j)
    /\ shuffleI' = shuffleI - 1
    /\ UNCHANGED <<pc, listerVars, repoIdx, countVars, allCommitSHAs,
                   finalSelectedSHAs, detailVars, paramVars, chartVars, repoScores, logVars>>

(* main.go:398-400 *)
SelectSHAs ==
    /\ pc = "shuffle"
    /\ shuffleI <= 0
    /\ LET n == NumToSelect(allCommitSHAs, numRandomCommitsToAnalyze)
           selected == SelectedSHAs(allCommitSHAs, indices, n) IN
       /\ finalSelectedSHAs' = selected
       /\ pc' = IF Len(selected) = 0 THEN "eval" ELSE "detail"
    /\ shaIdx' = 1
    /\ UNCHANGED <<listerVars, repoIdx, countVars, allCommitSHAs, indices,
                   shuffleI, commit, analyzedCommits, paramVars, chartVars, repoScores,
                   logVars>>

(* the position after one iteration of the loop over finalSelectedSHAs *)
NextDetail ==
    /\ shaIdx' = shaIdx + 1
    /\ pc' = IF shaIdx + 1 > Len(finalSelectedSHAs) THEN "eval" ELSE "detail"

(* GetCommit with a failed fetch ending the loop over the selected SHAs *)
GetCommitOrReturn ==
    /\ pc = "detail"
    /\ shaIdx <= Len(finalSelectedSHAs)
    /\ \/ /\ detailLog' = Append(detailLog,
                [sha |-> finalSelectedSHAs[shaIdx], ok |-> FALSE])
          /\ pc' = "eval"
          /\ UNCHANGED <<shaIdx, commit>>
       \/ \E c \in CommitDetails :
            /\ detailLog' = Append(detailLog,
                  [sha |-> finalSelectedSHAs[shaIdx], ok |-> TRUE])
            /\ commit' = c
            /\ pc' = "package"
            /\ UNCHANGED shaIdx
    /\ UNCHANGED <<listerVars, repoIdx, countVars, sampleVars, analyzedCommits,
                   paramVars, chartVars, repoScores, listed, evalCalls, evalEnd, evalMissing, shaEnd, countEnd>>

(* GetCommit with a failed fetch asked again for the same SHA *)
GetCommitAgain ==
    /\ pc = "detail"
    /\ shaIdx <= Len(finalSelectedSHAs)
    /\ \/ /\ detailLog' = Append(detailLog,
                [sha |-> finalSelectedSHAs[shaIdx], ok |-> FALSE])
          /\ UNCHANGED <<pc, shaIdx, commit>>
       \/ \E c \in CommitDetails :
            /\ detailLog' = Append(detailLog,
                  [sha |-> finalSelectedSHAs[shaIdx], ok |-> TRUE])
            /\ commit' = c
            /\ pc' = "package"
            /\ UNCHANGED shaIdx
    /\ UNCHANGED <<listerVars, repoIdx, countVars, sampleVars, analyzedCommits,
                   paramVars, chartVars, repoScores, listed, evalCalls, evalEnd, evalMissing, shaEnd, countEnd>>

(* main.go:403-409: GetCommit for the current SHA *)
GetCommit ==
    /\ pc = "detail"
    /\ shaIdx <= Len(finalSelectedSHAs)
    /\ \/ /\ detailLog' = Append(detailLog,       \* getErr != nil: continue
                [sha |-> finalSelectedSHAs[shaIdx], ok |-> FALSE])
          /\ NextDetail
          /\ UNCHANGED commit
       \/ \E c \in CommitDetails :
            /\ detailLog' = Append(detailLog,
                  [sha |-> finalSelectedSHAs[shaIdx], ok |-> TRUE])
            /\ commit' = c
            /\ pc' = "package"
            /\ UNCHANGED shaIdx
    /\ UNCHANGED <<listerVars, repoIdx, countVars, sampleVars, analyzedCommits,
                   paramVars, chartVars, repoScores, listed, evalCalls, evalEnd, evalMissing, shaEnd, countEnd>>

(* main.go:411-448: the fetched commit packaged and appended *)
PackageCommit ==
    /\ pc = "package"
    /\ analyzedCommits' = Append(analyzedCommits,
            CommitInfoOf(finalSelectedSHAs[shaIdx], commit, diffLinesLimit))
    /\ NextDetail
    /\ UNCHANGED <<listerVars, repoIdx, countVars, sampleVars, commit, paramVars,
                   chartVars, repoScores, logVars>>

(* AnalyzeCommitsWithGemini (main.go:126-229) and main.go:532-568 *)
Evaluate ==
    /\ pc = "eval"
    /\ LET name == allRepos[repoIdx] IN
       IF ~NeedsEvaluator(totalCommits, analyzedCommits)
       THEN /\ Record(ScoredRepo(name, totalCommits,
                                 ShortCircuitScore(totalCommits), analyzedCommits))
            /\ evalEnd' = "floor"
            /\ UNCHANGED <<evalCalls, evalMissing>>
       ELSE \E resp \in GeminiResponses :
              /\ evalCalls' = evalCalls + 1               \* GenerateContent
              /\ evalMissing' = MissingFields(resp)
              /\ LET r == ParseResponse(resp) IN
                 IF r.err
                 THEN /\ Record(EvalFailedScore(name, totalCommits, analyzedCommits))
                      /\ evalEnd' = "failed"
                 ELSE /\ Record(ScoredRepo(name, totalCommits, r.score,
                                           analyzedCommits))
                      /\ evalEnd' = "scored"
    /\ UNCHANGED <<listerVars, countVars, paramVars, chartVars, listed, detailLog,
                   shaEnd, countEnd>>

(* main.go:573-576 *)
SortScores ==
    /\ variant = "llm"
    /\ pc = "sort"
    /\ repoScores' = SortSliceStable(repoScores)
    /\ pc' = "done"
    /\ UNCHANGED <<listerVars, repoIdx, countVars, sampleVars, detailVars,
                   paramVars, chartVars, logVars>>

----------------------------------------------------------------------------
(* The chart-rendering program (main.go:613-958) *)

RepoCommitCountOf(name, count) == [Name |-> name, CommitCount |-> count]

(* main.go:821-829: main appends one RepoCommitCount; failed is err != nil *)
ChartRecord(name, count, failed) ==
    /\ repoCommits' = Append(repoCommits,
                             RepoCommitCountOf(name, IF failed THEN -1 ELSE count))
    /\ maxCommitsValue' = IF ~failed /\ count > maxCommitsValue
                          THEN count ELSE maxCommitsValue
    /\ repoIdx' = repoIdx + 1
    /\ pc' = "loop"

(* GetRepositoryCommitCount, main.go:709-744, on the answer a to its first *)
(* ListCommits call (PerPage: 1): done tells whether it returns without    *)
(* calling countAllCommits                                                 *)
ProbeStep(a, owner, repoName) ==
    IF a.failed
    THEN IF IsEmptyRepoConflict(a)
         THEN [done |-> TRUE, count |-> 0, err |-> <<>>]
         ELSE [done |-> TRUE, count |-> 0,
               err |-> <<ProbeErrorText(owner, repoName, a)>>]
    ELSE IF Len(a.items) = 0
    THEN [done |-> TRUE, count |-> 0, err |-> <<>>]
    ELSE [done |-> FALSE, count |-> 0, err |-> <<>>]

(* main.go:817-829 with the first call of GetRepositoryCommitCount *)
ChartProbe ==
    /\ variant = "chart"
    /\ pc = "loop"
    /\ repoIdx <= Len(allRepos)
    /\ allRepos[repoIdx] # <<>>
    /\ \E a \in ListCommitsAnswers(Organization, allRepos[repoIdx], 1,
                                   Min(1, MaxItems - listed)) :
         LET name == allRepos[repoIdx]
             step == ProbeStep(a, Organization, name) IN
         /\ listed' = listed + Len(a.items)
         /\ commitCount' = 0
         /\ page' = 1
         /\ IF step.done
            THEN /\ ChartRecord(name, step.count, step.err # <<>>)
                 /\ countEnd' = CountEndOf(a)
            ELSE /\ pc' = "count"
                 /\ countEnd' = "none"
                 /\ UNCHANGED <<repoIdx, chartVars>>
    /\ UNCHANGED <<listerVars, totalCommits, sampleVars, detailVars, paramVars,
                   repoScores, detailLog, evalCalls, evalEnd, evalMissing, shaEnd>>

(* one iteration of countAllCommits (main.go:751-765), with the return of  *)
(* GetRepositoryCommitCount and main.go:820-829                            *)
ChartCountPage ==
    /\ variant = "chart"
    /\ pc = "count"
    /\ \E a \in ListCommitsAnswers(Organization, allRepos[repoIdx], page,
                                   MaxItems - listed) :
         LET name == allRepos[repoIdx]
             step == CountAllCommitsStep(commitCount, a, Organization, name) IN
         /\ listed' = listed + Len(a.items)
         /\ commitCount' = commitCount + Len(a.items)
         /\ IF ~step.done
            THEN /\ page' = a.next
                 /\ UNCHANGED <<pc, repoIdx, chartVars, countEnd>>
            ELSE /\ ChartRecord(name, step.count, step.err # <<>>)
                 /\ countEnd' = CountEndOf(a)
                 /\ UNCHANGED page
    /\ UNCHANGED <<listerVars, totalCommits, sampleVars, detailVars, paramVars,
                   repoScores, detailLog, evalCalls, evalEnd, evalMissing, shaEnd>>

(* the less function ordering by ascending count *)
ChartLessAscending(a, b) ==
    IF a.CommitCount = -1 THEN FALSE
    ELSE IF b.CommitCount = -1 THEN TRUE
    ELSE a.CommitCount < b.CommitCount

(* main.go:833-842: the less function of sort.Slice *)
ChartLess(a, b) ==
    IF a.CommitCount = -1 THEN FALSE
    ELSE IF b.CommitCount = -1 THEN TRUE
    ELSE a.CommitCount > b.CommitCount

Arrangements(s) ==
    { [p \in 1..Len(s) |-> s[f[p]]] :
        f \in { g \in [1..Len(s) -> 1..Len(s)] :
                  \A x, y \in 1..Len(s) : x # y => g[x] # g[y] } }

(* sort.Slice is not stable: any arrangement that is sorted by less *)
SortSliceResults(s) ==
    { t \in Arrangements(s) :
        \A x, y \in 1..Len(t) : x < y => ~ChartLess(t[y], t[x]) }

(* main.go:832-842 *)
ChartSort ==
    /\ variant = "chart"
    /\ pc = "sort"
    /\ repoCommits' \in SortSliceResults(repoCommits)
    /\ pc' = "done"
    /\ UNCHANGED <<listerVars, repoIdx, countVars, sampleVars, detailVars,
                   paramVars, repoScores, maxCommitsValue, logVars>>

Next ==
    \/ ListByOrg
    \/ LoopExit
    \/ SkipUnnamed
    \/ BeginRepo
    \/ CountPage
    \/ ListShaPage
    \/ BeginSample
    \/ ShuffleStep
    \/ SelectSHAs
    \/ GetCommit
    \/ PackageCommit
    \/ Evaluate
    \/ SortScores
    \/ ChartProbe
    \/ ChartCountPage
    \/ ChartSort

Spec == Init /\ [][Next]_vars

(* main is one goroutine and every call it makes returns: while a step of  *)
(* the program is possible one is taken                                    *)
SpecLive == Init /\ [][Next]_vars /\ WF_vars(Next)

----------------------------------------------------------------------------
(* The steps of GetRepositoryCommitAnalysisData and of main on their own:  *)
(* each specification starts where the step is entered, for the first      *)
(* repository "a" of a one-repository organization, with arguments drawn   *)
(* from bounded sets                                                       *)

InitCall ==
    /\ variant = "llm"
    /\ allRepos = << <<"a">> >>
    /\ reposPage = 1
    /\ repoIdx = 1
    /\ page = 1
    /\ repoScores = <<>>
    /\ repoCommits = <<>>
    /\ maxCommitsValue = 0
    /\ listed = 0
    /\ evalCalls = 0
    /\ evalEnd = "none"
    /\ evalMissing = {}
    /\ shaEnd = "listed"
    /\ countEnd = "ok"

Identity(n) == [p \in 1..n |-> p]
Reverse(n) == [p \in 1..n |-> n + 1 - p]

(* main.go:371: the SHA listing has returned n identifiers *)
InitSampler ==
    /\ InitCall
    /\ pc = "sample"
    /\ \E n \in 0..MaxPopulation :
         /\ allCommitSHAs = Identity(n)
         /\ commitCount = IF n = 0 THEN 1 ELSE n
         /\ totalCommits = IF n = 0 THEN 1 ELSE n
    /\ numRandomCommitsToAnalyze \in 0..MaxSampleTarget
    /\ diffLinesLimit = ConstDiffLinesLimit
    /\ indices = <<>>
    /\ shuffleI = 0
    /\ finalSelectedSHAs = <<>>
    /\ shaIdx = 1
    /\ commit = NoCommit
    /\ analyzedCommits = <<>>
    /\ detailLog = <<>>

NextSampler == BeginSample \/ ShuffleStep \/ SelectSHAs

SpecSampler == InitSampler /\ [][NextSampler]_vars

(* main.go:403: s identifiers were selected out of s, in either order *)
InitDetail ==
    /\ InitCall
    /\ pc = "detail"
    /\ \E s \in 1..MaxSelected, sel \in {"identity", "reverse"} :
         /\ allCommitSHAs = Identity(s)
         /\ commitCount = s
         /\ totalCommits = s
         /\ finalSelectedSHAs = IF sel = "identity" THEN Identity(s) ELSE Reverse(s)
         /\ indices = [p \in 0..(s - 1) |->
                          IF sel = "identity" THEN p ELSE s - 1 - p]
    /\ numRandomCommitsToAnalyze = MaxSelected
    /\ diffLinesLimit = ConstDiffLinesLimit
    /\ shuffleI = 0
    /\ shaIdx = 1
    /\ commit = NoCommit
    /\ analyzedCommits = <<>>
    /\ detailLog = <<>>

NextDetailLoop == GetCommit \/ PackageCommit \/ Evaluate

SpecDetail == InitDetail /\ [][NextDetailLoop]_vars

(* the patches of one file: "" (no patch), and texts of one to three lines, *)
(* one of them ending in a newline                                          *)
Patches == { EmptyPatch, <<"a">>, <<"a", "b">>, <<"c", "">>, <<"a", "b", "c">> }

(* main.go:411: GetCommit has returned a commit for the one selected SHA *)
InitDiff ==
    /\ InitCall
    /\ pc = "package"
    /\ allCommitSHAs = Identity(1)
    /\ commitCount = 1
    /\ totalCommits = 1
    /\ indices = [p \in 0..0 |-> p]
    /\ shuffleI = 0
    /\ finalSelectedSHAs = Identity(1)
    /\ shaIdx = 1
    /\ numRandomCommitsToAnalyze = ConstNumRandomCommitsToAnalyze
    /\ diffLinesLimit \in -1..MaxLimit
    /\ commit \in [message : {<<"fix">>}, files : SeqsUpTo(Patches, MaxFiles)]
    /\ analyzedCommits = <<>>
    /\ detailLog = <<[sha |-> 1, ok |-> TRUE]>>

NextDiff == PackageCommit

SpecDiff == InitDiff /\ [][NextDiff]_vars

(* commit counts around the normalization cap *)
CommitCountSamples == {1, 2, 10, 250, 500, 999, 1000, 1001, 2000, 100000}

(* main.go:532: GetRepositoryCommitAnalysisData has returned the count and *)
(* m packaged commits                                                      *)
InitScore ==
    /\ InitCall
    /\ pc = "eval"
    /\ totalCommits \in CommitCountSamples
    /\ commitCount = totalCommits
    /\ \E m \in 0..MaxSampled :
         /\ allCommitSHAs = Identity(m)
         /\ indices = [p \in 0..(m - 1) |-> p]
         /\ finalSelectedSHAs = Identity(m)
         /\ shaIdx = m + 1
         /\ commit = IF m = 0 THEN NoCommit ELSE CHOOSE c \in CommitDetails : TRUE
         /\ analyzedCommits =
              [p \in 1..m |-> CommitInfoOf(p, CHOOSE c \in CommitDetails : TRUE,
                                           ConstDiffLinesLimit)]
         /\ detailLog = [p \in 1..m |-> [sha |-> p, ok |-> TRUE]]
    /\ shuffleI = 0
    /\ numRandomCommitsToAnalyze = ConstNumRandomCommitsToAnalyze
    /\ diffLinesLimit = ConstDiffLinesLimit

NextScore == Evaluate

SpecScore == InitScore /\ [][NextScore]_vars

(* main.go:298-302, 746-750: countAllCommits is entered, in either program, *)
(* for the one repository of the organization                              *)
InitCounter ==
    /\ variant \in {"llm", "chart"}
    /\ pc = "count"
    /\ \E name \in RepoNames \ {<<>>} : allRepos = <<name>>
    /\ reposPage = 1
    /\ repoIdx = 1
    /\ commitCount = 0
    /\ page = 1
    /\ totalCommits = 0
    /\ allCommitSHAs = <<>>
    /\ indices = <<>>
    /\ shuffleI = 0
    /\ finalSelectedSHAs = <<>>
    /\ shaIdx = 1
    /\ commit = NoCommit
    /\ analyzedCommits = <<>>
    /\ numRandomCommitsToAnalyze = ConstNumRandomCommitsToAnalyze
    /\ diffLinesLimit = ConstDiffLinesLimit
    /\ repoScores = <<>>
    /\ repoCommits = <<>>
    /\ maxCommitsValue = 0
    /\ listed = 0
    /\ detailLog = <<>>
    /\ evalCalls = 0
    /\ evalEnd = "none"
    /\ evalMissing = {}
    /\ shaEnd = "none"
    /\ countEnd = "none"

NextCounter == CountPage \/ ChartCountPage

SpecCounter == InitCounter /\ [][NextCounter]_vars

----------------------------------------------------------------------------
(* Properties of the pipeline *)

(* the record main appended last *)
LastScore == repoScores[Len(repoScores)]
LastCount == repoCommits[Len(repoCommits)]

(* the repository loop has just recorded a repository *)
JustRecorded == pc = "loop" /\ countEnd # "none"

(* the names of a list that are not empty, in order *)
NamedRepos(names) == SelectSeq(names, LAMBDA n : n # <<>>)

NamesOf(scores) == [p \in 1..Len(scores) |-> scores[p].Name]

(* C1: every recorded repository with commit count 0 has overall,          *)
(* technical and message score 0 and analyzed count 0, and the evaluator   *)
(* is never called for a repository whose count is 0                       *)
C1_ZeroCommitShortCircuit ==
    /\ \A p \in 1..Len(repoScores) :
         repoScores[p].CommitCount = 0 =>
            /\ repoScores[p].OverallScore = 0
            /\ repoScores[p].TechnicalScore = 0
            /\ repoScores[p].MessageScore = 0
            /\ repoScores[p].AnalyzedCommitsCount = 0
    /\ evalCalls > 0 => totalCommits > 0
    /\ (variant = "llm" /\ JustRecorded /\ LastScore.CommitCount = 0) =>
            evalCalls = 0 /\ evalEnd = "none"

(* an empty repository (conflict) has just been recorded with count 0 and  *)
(* without a call of the evaluator, after a repository that was evaluated  *)
C1_Witness ==
    /\ variant = "llm" /\ JustRecorded /\ countEnd = "conflict"
    /\ Len(repoScores) = 2
    /\ repoScores[1].CommitCount > 0 /\ repoScores[1].AnalyzedCommitsCount > 0
    /\ LastScore = ZeroCommitScore(LastScore.Name)
    /\ evalCalls = 0

(* C2: while the lister succeeds no failure inside the loop stops the run: *)
(* the result list always holds one record for each named repository      *)
(* already passed, in enumeration order, and when the loop has ended one   *)
(* for each named repository listed; only the lister ends the run early    *)
C2_OneRecordPerNamedRepo ==
    variant = "llm" =>
        /\ pc \in {"listRepos", "fatal", "exit"} => repoScores = <<>>
        /\ pc \in {"loop", "count", "listShas", "sample", "shuffle", "detail",
                   "package", "eval"} =>
              NamesOf(repoScores) = NamedRepos(Take(allRepos, repoIdx - 1))
        /\ pc \in {"count", "listShas", "sample", "shuffle", "detail",
                   "package", "eval"} =>
              repoIdx <= Len(allRepos) /\ allRepos[repoIdx] # <<>>
        /\ pc = "sort" => NamesOf(repoScores) = NamedRepos(allRepos)

(* the loop has ended after a counting failure, an evaluator failure and a *)
(* failure of the SHA listing, in three repositories                       *)
C2_Witness ==
    /\ variant = "llm" /\ pc = "sort"
    /\ Len(repoScores) = 3
    /\ repoScores[1].CommitCount = -1
    /\ repoScores[2] = EvalFailedScore(repoScores[2].Name, 1, <<1>>)
    /\ repoScores[3].CommitCount = 1 /\ repoScores[3].TechnicalScore = 1
    /\ repoScores[3].AnalyzedCommitsCount = 0

(* C3: a counting failure other than the empty-repository conflict is      *)
(* recorded with commit count -1, zero scores and analyzed count 0,        *)
(* without sampling or evaluation                                          *)
C3_CountFailureRecorded ==
    (JustRecorded /\ countEnd = "failed") =>
        IF variant = "llm"
        THEN LastScore = ErroredScore(LastScore.Name) /\ evalCalls = 0
        ELSE LastCount.CommitCount = -1

(* C4: when the commit listing reports the conflict on any page, the       *)
(* counter returns 0 without error and the repository is recorded with     *)
(* commit count 0, never -1                                                *)
C4_ConflictCountsZero ==
    (JustRecorded /\ countEnd = "conflict") =>
        IF variant = "llm"
        THEN totalCommits = 0 /\ LastScore = ZeroCommitScore(LastScore.Name)
        ELSE LastCount.CommitCount = 0

(* the conflict came on the second page, after commits were counted *)
C4_Witness ==
    /\ variant = "chart" /\ JustRecorded /\ countEnd = "conflict"
    /\ page = 2 /\ commitCount > 0
    /\ LastCount.CommitCount = 0

(* t is s in non-increasing order of OverallScore, equal scores in the     *)
(* order they have in s                                                    *)
IsStableRanking(s, t) ==
    /\ Len(t) = Len(s)
    /\ \A p \in 1..(Len(t) - 1) : t[p].OverallScore >= t[p + 1].OverallScore
    /\ \E f \in [1..Len(s) -> 1..Len(s)] :
         /\ \A p, q \in 1..Len(s) : p # q => f[p] # f[q]
         /\ \A p \in 1..Len(s) : t[p] = s[f[p]]
         /\ \A p, q \in 1..Len(s) :
              (p < q /\ t[p].OverallScore = t[q].OverallScore) => f[p] < f[q]

(* C9: the ranked list is a permutation of the accumulated list,           *)
(* non-increasing in OverallScore, and records with equal OverallScore     *)
(* keep their enumeration order                                            *)
C9_StableRanking ==
    [][(variant = "llm" /\ pc = "sort" /\ pc' = "done") =>
            IsStableRanking(repoScores, repoScores')]_vars

(* a ranking that moved a scored repository ahead of an errored and a      *)
(* zero-commit one, which kept their order                                 *)
C9_Witness ==
    /\ variant = "llm" /\ pc = "done"
    /\ Len(repoScores) = 3
    /\ repoScores[1].OverallScore > 0
    /\ repoScores[1].Name = allRepos[Len(allRepos)]
    /\ repoScores[2].CommitCount = -1
    /\ repoScores[3].CommitCount = 0

----------------------------------------------------------------------------
(* Properties of the sampler (SpecSampler) *)

(* f is a permutation of 0..(n - 1), as an array of n indices *)
IsIndexPermutation(f, n) ==
    /\ DOMAIN f = 0..(n - 1)
    /\ \A p \in 0..(n - 1) : f[p] \in 0..(n - 1)
    /\ \A p, q \in 0..(n - 1) : p # q => f[p] # f[q]

(* sel holds the elements of shas at pairwise distinct indices *)
TakenAtDistinctIndices(sel, shas) ==
    \E f \in [1..Len(sel) -> 1..Len(shas)] :
        /\ \A p, q \in 1..Len(sel) : p # q => f[p] # f[q]
        /\ \A p \in 1..Len(sel) : sel[p] = shas[f[p]]

(* C5: for n enumerated identifiers and sample target k the sampler        *)
(* selects exactly min(k, n) identifiers taken at pairwise distinct        *)
(* indices; the index array is a permutation of 0..n-1 after every swap;   *)
(* for n = 0 the result is empty and nothing fails                         *)
C5_SampleWithoutReplacement ==
    LET n == Len(allCommitSHAs)
        k == numRandomCommitsToAnalyze IN
    /\ pc = "shuffle" => IsIndexPermutation(indices, n)
    /\ pc \in {"detail", "eval"} =>
          /\ Len(finalSelectedSHAs) = Min(k, n)
          /\ TakenAtDistinctIndices(finalSelectedSHAs, allCommitSHAs)
    /\ n = 0 => /\ pc \in {"sample", "eval"}
                /\ finalSelectedSHAs = <<>>
                /\ analyzedCommits = <<>>
    /\ pc \in {"sample", "shuffle", "detail", "eval"}

(* two of four identifiers selected, out of their enumeration order *)
C5_Witness ==
    /\ pc = "detail"
    /\ Len(allCommitSHAs) = 4 /\ numRandomCommitsToAnalyze = 2
    /\ finalSelectedSHAs = <<3, 1>>
    /\ IsIndexPermutation(indices, 4)

----------------------------------------------------------------------------
(* Properties of the diff packaging (SpecDiff) *)

(* the lines of the non-empty patches of a commit, in file order *)
PatchLines(files) == Flatten(SelectSeq(files, LAMBDA f : f # EmptyPatch))

(* the content lines of a snippet: what is neither newline, separator nor  *)
(* truncation text                                                         *)
ContentLines(diff) ==
    SelectSeq(diff, LAMBDA t : t \notin {NL, Separator, TruncationText})

(* the snippet ends with the truncation marker and holds no other one *)
ClosedByMarker(diff) ==
    /\ Len(diff) >= Len(TruncationMarker)
    /\ SubSeq(diff, Len(diff) - Len(TruncationMarker) + 1, Len(diff))
          = TruncationMarker
    /\ \A p \in 1..Len(diff) : diff[p] = TruncationText => p = Len(diff) - 1

HasMarker(diff) == \E p \in 1..Len(diff) : diff[p] = TruncationText

(* the commit in `commit` has been packaged *)
Packaged == pc = "eval" /\ analyzedCommits # <<>>

PackagedDiff == analyzedCommits[Len(analyzedCommits)].Diff

(* C6: for patches of L lines in total and a limit M with 0 < M < L the    *)
(* packaged diff holds exactly the first M lines, in file order, then the  *)
(* truncation marker, and no line after it, however the lines are spread   *)
(* over the files                                                          *)
C6_TruncatedDiff ==
    Packaged =>
        LET lines == PatchLines(commit.files)
            M == diffLinesLimit IN
        (0 < M /\ M < Len(lines)) =>
            /\ ContentLines(PackagedDiff) = SubSeq(lines, 1, M)
            /\ ClosedByMarker(PackagedDiff)

(* four lines in two files under a limit of two: the separator, the second *)
(* line and the marker                                                     *)
C6_Witness ==
    /\ Packaged
    /\ diffLinesLimit = 2
    /\ commit.files = << <<"a">>, <<"a", "b", "c">> >>
    /\ PackagedDiff = <<"a", NL, Separator, NL, "a", NL, NL, TruncationText, NL>>

(* C7 as stated: with a positive limit the snippet is closed with the      *)
(* truncation marker once the emitted lines reach the limit, also when the *)
(* patches hold exactly that many lines                                    *)
C7_MarkerAtLimit ==
    Packaged =>
        LET lines == PatchLines(commit.files)
            M == diffLinesLimit IN
        (0 < M /\ M <= Len(lines)) => ClosedByMarker(PackagedDiff)

(* C7: with a positive limit the snippet is closed with the truncation     *)
(* marker, and nothing more is emitted, when a further line is due after   *)
(* limit lines were emitted: exactly when the patches hold more than limit *)
(* lines; with limit lines or fewer all of them are emitted and there is   *)
(* no marker                                                               *)
C7_MarkerWhenLinesRemain ==
    Packaged =>
        LET lines == PatchLines(commit.files)
            M == diffLinesLimit IN
        0 < M =>
            /\ HasMarker(PackagedDiff) <=> Len(lines) > M
            /\ HasMarker(PackagedDiff) => ClosedByMarker(PackagedDiff)
            /\ Len(ContentLines(PackagedDiff)) = Min(M, Len(lines))
            /\ Len(lines) <= M => ContentLines(PackagedDiff) = lines

(* the patches hold exactly limit lines, in two files: all are emitted,    *)
(* without separator after the last one and without marker                 *)
C7_Witness ==
    /\ Packaged
    /\ diffLinesLimit = 3
    /\ commit.files = << <<"a">>, <<"a", "b">>, EmptyPatch >>
    /\ PackagedDiff = <<"a", NL, Separator, NL, "a", NL, "b", NL>>

----------------------------------------------------------------------------
(* Properties of the scoring (SpecScore) *)

(* C8: for a repository with commit count c > 0 whose score (t, m) was     *)
(* obtained, from the evaluator or from the floor without samples, the     *)
(* overall score is (min(c, 1000) / 1000 * 10) * 0.2 + t * 0.4 + m * 0.4,  *)
(* in thousandths 2 * min(c, 1000) + 400 * t + 400 * m; c = 1000 with      *)
(* t = m = 10 gives 10.0 and every c >= 1000 the commit component 2.0      *)
C8_OverallScore ==
    (variant = "llm" /\ pc = "loop" /\ evalEnd \in {"floor", "scored"}
        /\ LastScore.CommitCount > 0) =>
        LET c == LastScore.CommitCount
            t == LastScore.TechnicalScore
            m == LastScore.MessageScore IN
        /\ LastScore.OverallScore = 2 * Min(c, 1000) + 400 * t + 400 * m
        /\ (c = 1000 /\ t = 10 /\ m = 10) => LastScore.OverallScore = 10000
        /\ c >= 1000 => LastScore.OverallScore - 400 * t - 400 * m = 2000

(* a repository over the cap evaluated at (3, 7): 2.0 + 1.2 + 2.8 *)
C8_Witness ==
    /\ pc = "loop" /\ evalEnd = "scored"
    /\ LastScore.CommitCount = 2000
    /\ LastScore.TechnicalScore = 3 /\ LastScore.MessageScore = 7
    /\ LastScore.OverallScore = 6000

----------------------------------------------------------------------------
(* Properties of the detail loop (SpecDetail) *)

(* the SHAs of the packaged commits *)
SHAsOf(commits) == [p \in 1..Len(commits) |-> commits[p].SHA]

(* the SHAs whose fetch succeeded, in the order of the fetches *)
FetchedSHAs(log) ==
    LET oks == SelectSeq(log, LAMBDA e : e.ok) IN
    [p \in 1..Len(oks) |-> oks[p].sha]

FailedFetches(log) == Len(log) - Len(FetchedSHAs(log))

(* C10: when the fetch fails for f of the s selected identifiers, the      *)
(* packaged set holds exactly the s - f commits whose fetch succeeded, in  *)
(* selection order; every identifier is fetched once, failed or not; the   *)
(* repository is then evaluated and recorded with s - f analyzed commits   *)
C10_FailedFetchSkipped ==
    /\ pc \in {"detail", "package"} =>
          /\ Len(detailLog) = IF pc = "package" THEN shaIdx ELSE shaIdx - 1
          /\ \A p \in 1..Len(detailLog) : detailLog[p].sha = finalSelectedSHAs[p]
    /\ pc = "detail" => SHAsOf(analyzedCommits) = FetchedSHAs(detailLog)
    /\ pc = "eval" =>
          /\ Len(detailLog) = Len(finalSelectedSHAs)
          /\ \A p \in 1..Len(detailLog) : detailLog[p].sha = finalSelectedSHAs[p]
          /\ SHAsOf(analyzedCommits) = FetchedSHAs(detailLog)
          /\ Len(analyzedCommits) = Len(finalSelectedSHAs) - FailedFetches(detailLog)
    /\ (pc = "loop" /\ evalEnd # "none") =>
          LastScore.AnalyzedCommitsCount = Len(FetchedSHAs(detailLog))

(* five selected, the second fetch failed: four packaged, in order *)
C10_Witness ==
    /\ pc = "eval"
    /\ finalSelectedSHAs = <<5, 4, 3, 2, 1>>
    /\ FailedFetches(detailLog) = 1 /\ ~detailLog[2].ok
    /\ SHAsOf(analyzedCommits) = <<5, 3, 2, 1>>

----------------------------------------------------------------------------
(* Properties of the sample size (Spec) *)

(* C11: every record with commit count >= 0 has an analyzed count of at    *)
(* most min(sample target, commit count), whatever the commit lister       *)
(* answers in the counting pass and in the SHA pass after it               *)
C11_AnalyzedWithinCount ==
    \A p \in 1..Len(repoScores) :
        repoScores[p].CommitCount >= 0 =>
            repoScores[p].AnalyzedCommitsCount
                <= Min(numRandomCommitsToAnalyze, repoScores[p].CommitCount)

----------------------------------------------------------------------------
(* Properties of the paginations (Spec) *)

(* the record of a repository with commits and no packaged sample *)
FloorScore(name, total) == ScoredRepo(name, total, ShortCircuitScore(total), <<>>)

(* a failed page of the repository listing ends the run with no list, and  *)
(* a failed page of the counting (other than the conflict) ends the        *)
(* counting with no count: -1 in the chart program; in the LLM program     *)
(* totalCommits 0 and a record of -1 or, where main.go:333 lets the error  *)
(* pass, of 0                                                              *)
ListerAndCounterFailure ==
    /\ pc = "fatal" => allRepos = <<>> /\ repoScores = <<>> /\ repoCommits = <<>>
    /\ (JustRecorded /\ countEnd = "failed") =>
          IF variant = "chart"
          THEN LastCount.CommitCount = -1
          ELSE totalCommits = 0 /\ LastScore.CommitCount \in {-1, 0}

(* C12 as stated: a failed page fetch ends the pagination of the           *)
(* repository listing, of the counting and of the SHA listing, returns     *)
(* none of the items of earlier pages and surfaces the error to the caller *)
C12_PageFailureSurfaces ==
    /\ ListerAndCounterFailure
    /\ ~(pc = "eval" /\ shaEnd = "failed")
    /\ (variant = "llm" /\ pc = "loop" /\ shaEnd = "failed") =>
          LastScore = ErroredScore(LastScore.Name)

(* C12: a failed page fetch ends the pagination and none of the items of   *)
(* earlier pages is used; the repository lister and the commit counter     *)
(* (for a failure other than the conflict) return the error, while the SHA *)
(* listing returns the commit count with an empty sample set and no error, *)
(* and the repository is recorded with the floor score                     *)
C12_PageFailureEndsPagination ==
    /\ ListerAndCounterFailure
    /\ (pc = "eval" /\ shaEnd = "failed") =>
          /\ finalSelectedSHAs = <<>>
          /\ analyzedCommits = <<>>
          /\ detailLog = <<>>
          /\ totalCommits > 0
    /\ (variant = "llm" /\ pc = "loop" /\ shaEnd = "failed") =>
          /\ LastScore = FloorScore(LastScore.Name, totalCommits)
          /\ evalEnd = "floor"

(* the second page of the SHA listing failed after the first one gave SHAs *)
C12_Witness ==
    /\ pc = "eval" /\ shaEnd = "failed"
    /\ page = 2 /\ Len(allCommitSHAs) > 0
    /\ analyzedCommits = <<>>

----------------------------------------------------------------------------
(* Properties of the evaluation (Spec) *)

(* the scores the evaluation can end with when it does not fail *)
EvaluatedScores ==
    { ParseResponse(resp).score :
        resp \in { r \in GeminiResponses : ~ParseResponse(r).err } }

(* C13: a repository whose evaluator call failed is recorded with          *)
(* technical and message score 0 and with a marker that tells it from an   *)
(* evaluated repository: no evaluation gives its qualitative fields        *)
C13_EvalFailureMarked ==
    (variant = "llm" /\ pc = "loop" /\ evalEnd = "failed") =>
        /\ LastScore.TechnicalScore = 0
        /\ LastScore.MessageScore = 0
        /\ GeminiScoreOf(LastScore.TechnicalScore, LastScore.MessageScore)
               \notin EvaluatedScores

(* C14: when the JSON object extracted from the evaluator's answer lacks   *)
(* one of the two score fields, the evaluation of the repository fails     *)
C14_MissingFieldFails ==
    (variant = "llm" /\ pc = "loop" /\ evalMissing # {}) => evalEnd = "failed"

(* C15: every record has a technical score and a message score in 0..10,   *)
(* whatever integers the evaluator's answer holds, and an overall score in *)
(* 0..10 (0..10000 thousandths)                                            *)
C15_ScoresInRange ==
    \A p \in 1..Len(repoScores) :
        /\ repoScores[p].TechnicalScore \in 0..10
        /\ repoScores[p].MessageScore \in 0..10
        /\ repoScores[p].OverallScore \in 0..10000

(* C16: a repository with commit count > 0 and no packaged commit (the SHA *)
(* listing failed, gave no SHA, or every detail fetch failed) is recorded, *)
(* without error and without a call of the evaluator, with technical score *)
(* 1, message score 0 and the overall score the formula gives for them     *)
C16_NoSampleFloor ==
    (variant = "llm" /\ pc = "loop" /\ evalEnd # "none"
        /\ LastScore.AnalyzedCommitsCount = 0) =>
        /\ LastScore.CommitCount = totalCommits
        /\ totalCommits > 0
        /\ LastScore.TechnicalScore = 1
        /\ LastScore.MessageScore = 0
        /\ LastScore.OverallScore = 2 * Min(totalCommits, 1000) + 400 * 1 + 400 * 0
        /\ evalEnd = "floor"
        /\ evalCalls = 0

(* two SHAs were selected and both detail fetches failed *)
C16_Witness ==
    /\ variant = "llm" /\ pc = "loop" /\ evalEnd = "floor"
    /\ shaEnd = "listed"
    /\ Len(detailLog) = 2 /\ ~detailLog[1].ok /\ ~detailLog[2].ok
    /\ LastScore.CommitCount = 2
    /\ LastScore.OverallScore = 404

(* C17: while no page fetch fails the counter holds the number of items of *)
(* the pages fetched so far, and when it returns after a page without next *)
(* cursor it returns, without error, the number of items of all the pages  *)
(* fetched: 0 when the first page is empty and has no next cursor          *)
C17_CounterSumsPages ==
    /\ (pc = "count" /\ countEnd = "none") => commitCount = listed
    /\ (pc # "count" /\ countEnd = "ok") =>
          IF variant = "chart"
          THEN /\ Len(repoCommits) = 1
               /\ repoCommits[1].CommitCount = listed
               /\ repoCommits[1].CommitCount # -1
          ELSE /\ totalCommits = listed
               /\ IF listed = 0
                  THEN pc = "loop" /\ repoScores = <<ZeroCommitScore(allRepos[1])>>
                  ELSE pc = "listShas" /\ repoScores = <<>>

(* the counter returned 5 after the second page, which had no next cursor *)
C17_Witness ==
    /\ variant = "chart" /\ pc = "loop" /\ countEnd = "ok"
    /\ page = 2
    /\ repoCommits = <<RepoCommitCountOf(allRepos[1], 5)>>

(* a step in which a call of the GitHub client or of the evaluator failed *)
ListerFailed == pc = "listRepos" /\ pc' = "fatal"
CountPageFailed == countEnd = "none" /\ countEnd' \in {"failed", "conflict"}
ShaPageFailed == shaEnd # "failed" /\ shaEnd' = "failed"
DetailFetchFailed ==
    Len(detailLog') = Len(detailLog) + 1 /\ ~detailLog'[Len(detailLog')].ok
EvaluatorFailed == evalEnd = "none" /\ evalEnd' = "failed"

(* C18: no failed call is issued again. A failed repository listing ends   *)
(* the run; a failed page of the counting or of the SHA listing ends that  *)
(* pagination, which is entered once per repository; a failed detail fetch *)
(* moves on to the next selected SHA, and no SHA is fetched twice; a       *)
(* failed evaluator call is the only one for its repository; and the run   *)
(* never comes back to a repository or to a selected SHA it has left       *)
C18_NoCallReissued ==
    [][ /\ pc # "fatal"
        /\ ListerFailed => allRepos' = <<>>
        /\ CountPageFailed => pc' = "loop" /\ repoIdx' = repoIdx + 1
        /\ ShaPageFailed => pc' = "eval" /\ analyzedCommits' = <<>>
        /\ (pc = "eval" /\ shaEnd = "failed") =>
              pc' = "loop" /\ repoIdx' = repoIdx + 1 /\ evalCalls' = 0
        /\ DetailFetchFailed =>
              /\ shaIdx' = shaIdx + 1
              /\ pc' \in {"detail", "eval"}
        /\ Len(detailLog') = Len(detailLog) + 1 =>
              \A q \in 1..Len(detailLog) :
                  detailLog[q].sha # detailLog'[Len(detailLog')].sha
        /\ EvaluatorFailed =>
              evalCalls = 0 /\ evalCalls' = 1 /\ pc' = "loop"
                  /\ repoIdx' = repoIdx + 1
        /\ repoIdx' >= repoIdx
        /\ (pc # "listRepos" /\ pc # "loop" /\ pc' = "loop") => repoIdx' = repoIdx + 1
        /\ (pc # "count" /\ pc' = "count") => pc = "loop"
        /\ (pc # "listShas" /\ pc' = "listShas") => pc = "count"
        /\ (pc # "detail" /\ pc' = "detail") =>
              \/ pc = "shuffle" /\ shaIdx' = 1
              \/ pc = "package" /\ shaIdx' = shaIdx + 1
        /\ (pc # "eval" /\ pc' = "eval") =>
              pc \in {"listShas", "sample", "shuffle", "detail", "package"}
      ]_vars

(* a detail fetch and then the evaluator failed for a repository, and the *)
(* run went on to the next repository                                     *)
C18_Witness ==
    /\ variant = "llm" /\ pc = "loop"
    /\ evalEnd = "failed" /\ evalCalls = 1
    /\ Len(detailLog) = 2 /\ ~detailLog[1].ok /\ detailLog[2].ok
    /\ repoIdx = 2 /\ Len(allRepos) = 2

(* the run is over: the ranking was sorted and reported, log.Fatalf ended  *)
(* the process, or main returned for an organization without repositories  *)
RunEnded == pc \in {"done", "fatal", "exit"}

(* C19 as stated: whatever fails, the run reaches the sorted-and-reported  *)
(* final state                                                             *)
C19_ReachesReport == <>(pc = "done")

(* C19: every run ends, and once the repositories are listed it ends in    *)
(* the sorted-and-reported final state whatever fails afterwards. No step  *)
(* leaves an ended run, so every pagination, the shuffle loop and the loop *)
(* over the selected commits are left on the way                           *)
C19_RunTerminates ==
    /\ <>RunEnded
    /\ (pc = "loop") ~> (pc = "done")

(* the report is reached after a counting failure for one repository and  *)
(* the shuffle and the packaging of two commits for another               *)
C19_Witness ==
    /\ variant = "llm" /\ pc = "done"
    /\ Len(repoScores) = 2
    /\ repoScores[1].AnalyzedCommitsCount = 2
    /\ repoScores[2].CommitCount = -1

(* C20: a step calls the evaluator only for a repository whose counting    *)
(* returned a count > 0 without error, with at least one commit packaged,  *)
(* and not called before for it; so a repository recorded with count -1    *)
(* or 0, or without a packaged commit, was recorded without a call         *)
C20_EvaluatorCalledOnce ==
    [][ /\ evalCalls' > evalCalls =>
              /\ evalCalls = 0 /\ evalCalls' = 1
              /\ pc = "eval"
              /\ countEnd = "ok"
              /\ totalCommits > 0
              /\ Len(analyzedCommits) > 0
              /\ shaEnd = "listed"
              /\ \E q \in 1..Len(detailLog) : detailLog[q].ok
              /\ repoIdx' = repoIdx + 1
        /\ (variant = "llm" /\ pc # "loop" /\ pc' = "loop" /\ countEnd' # "none") =>
              LET last == repoScores'[Len(repoScores')] IN
              /\ Len(repoScores') = Len(repoScores) + 1
              /\ (last.CommitCount <= 0 \/ last.AnalyzedCommitsCount = 0) =>
                    evalCalls' = 0
              /\ evalCalls' <= 1
      ]_vars

(* the evaluator was called once for the second repository, with one      *)
(* commit packaged, after a repository recorded without a call            *)
C20_Witness ==
    /\ variant = "llm" /\ pc = "loop" /\ evalCalls = 1 /\ evalEnd = "scored"
    /\ Len(repoScores) = 2
    /\ repoScores[1].CommitCount = -1
    /\ repoScores[2].CommitCount > 0
    /\ repoScores[2].AnalyzedCommitsCount = 1

(* the valid counts recorded so far by the chart program *)
ValidCounts ==
    { repoCommits[p].CommitCount : p \in { q \in 1..Len(repoCommits) :
                                             repoCommits[q].CommitCount # -1 } }

(* C21: in the chart program the running maximum is the largest valid     *)
(* count recorded so far, 0 when there is none, and after the sort every   *)
(* record with count -1 stands after every record with a valid count and   *)
(* the valid counts are in non-increasing order                            *)
C21_ChartRanking ==
    variant = "chart" =>
        /\ \A c \in ValidCounts : c <= maxCommitsValue
        /\ maxCommitsValue \in ValidCounts \cup {0}
        /\ pc = "done" =>
              \A x, y \in 1..Len(repoCommits) :
                  x < y =>
                      /\ repoCommits[x].CommitCount = -1 =>
                            repoCommits[y].CommitCount = -1
                      /\ repoCommits[y].CommitCount # -1 =>
                            repoCommits[x].CommitCount >= repoCommits[y].CommitCount

(* three repositories sorted: counts 1 and 0, then the one whose counting *)
(* failed                                                                 *)
C21_Witness ==
    /\ variant = "chart" /\ pc = "done"
    /\ Len(repoCommits) = 3
    /\ repoCommits[1].CommitCount = 1
    /\ repoCommits[2].CommitCount = 0
    /\ repoCommits[3].CommitCount = -1
    /\ maxCommitsValue = 1

====
